---- MODULE Spec2Model ----
(***************************************************************************)
(* Model of src/tabris/Crypto.ts: the Crypto / SubtleCrypto facade, the    *)
(* NativeCrypto adapter and the derive-algorithm gate, driven against an   *)
(* abstract Provider (the native side behind _nativeCall).                 *)
(*                                                                         *)
(* JavaScript values are abstracted as follows.                            *)
(*   - booleans, numbers, formats, buffers: strings naming the value or    *)
(*     its runtime class ("true", "256", "NaN", "ArrayBuffer", ...);       *)
(*   - objects: sets of <<key, value>> pairs;                              *)
(*   - an algorithm argument: [kind, str, obj] where kind is the typeof    *)
(*     class, str the string value and obj the own properties;            *)
(*   - a CryptoKey argument: the index of the handle in `handles`, 0 for   *)
(*     a value that is not a CryptoKey.                                    *)
(***************************************************************************)
EXTENDS Integers, Sequences, FiniteSets, TLC

VARIABLES
  calls,       \* facade invocations, in call order (one record per call)
  requests,    \* _nativeCall requests that carry callbacks, in issue order
  containers,  \* Provider-side key containers, indexed by cid
  handles,     \* CryptoKey objects handed to callers
  buffer,      \* getRandomValues: bytes of the ArrayBuffer under the view
  view,        \* getRandomValues: [offset, len, float] of the typed array
  rnd          \* getRandomValues: outcome of the last call

vars == <<calls, requests, containers, handles, buffer, view, rnd>>

(***************************************************************************)
(* Bounds                                                                  *)
(***************************************************************************)
MaxCalls == 2       \* facade calls per behaviour
MaxBuf == 3         \* length of the ArrayBuffer given to getRandomValues

(***************************************************************************)
(* Abstract JavaScript values                                              *)
(***************************************************************************)
NoObj == {}
Str(s) == [kind |-> "string", str |-> s, obj |-> NoObj]
Obj(o) == [kind |-> "object", str |-> "", obj |-> o]
Undefined == [kind |-> "undefined", str |-> "", obj |-> NoObj]
Other == [kind |-> "number", str |-> "", obj |-> NoObj]

Keys(o) == {p[1] : p \in o}
Get(o, k) == IF \E p \in o : p[1] = k THEN (CHOOSE p \in o : p[1] = k)[2] ELSE "undefined"
\* property read `a.k` on an algorithm argument
Prop(a, k) == Get(a.obj, k)

NoArray == [kind |-> "other", items |-> <<>>]
Arr(s) == [kind |-> "array", items |-> s]

\* s.length, for the strings that occur as algorithm names
StrLen(s) ==
  CASE s = "" -> 0
    [] s = "A" -> 1
    [] s \in {"RSA", "MD5"} -> 3
    [] s \in {"HKDF", "ECDH"} -> 4
    [] s = "SHA-1" -> 5
    [] s \in {"AES-GCM", "AES-CBC", "SHA-256", "SHA-384", "SHA-512"} -> 7

\* what Object.keys gives in place of a key set when it throws
TypeError == "TypeError"

\* Object.keys(value): own keys of an object, index keys of a string, no
\* keys of a number; undefined cannot be converted to an object
ObjectKeys(a) ==
  CASE a.kind = "object" -> Keys(a.obj)
    [] a.kind = "string" -> {ToString(i) : i \in 0 .. (StrLen(a.str) - 1)}
    [] a.kind = "undefined" -> TypeError
    [] OTHER -> {}

(***************************************************************************)
(* Validator primitives (util.ts, checkType.ts)                            *)
(***************************************************************************)
BufferLike == {"ArrayBuffer", "Uint8Array"}

\* getBuffer(value): the underlying ArrayBuffer, or nothing
getBuffer(v) == IF v \in BufferLike THEN "ArrayBuffer" ELSE "undefined"

allowOnlyValues(v, allowed, name) == IF v \in allowed THEN "ok" ELSE name

allowOnlyKeys(a, allowed, name) ==
  IF a.kind = "undefined" THEN name
  ELSE IF ObjectKeys(a) \subseteq allowed THEN "ok" ELSE name

checkBoolean(v, name) == IF v \in {"true", "false"} THEN "ok" ELSE name

FiniteNumbers == {"96", "128", "256"}
checkNumber(v, nullable, name) ==
  IF v \in FiniteNumbers \/ (nullable /\ v \in {"undefined", "null"}) THEN "ok" ELSE name

checkArrayBuffer(v, name) == IF v = "ArrayBuffer" THEN "ok" ELSE name

checkString(v, name) == IF v \in {"undefined", "null", "number"} THEN name ELSE "ok"

checkArray(v, name) == IF v.kind = "array" THEN "ok" ELSE name

checkObject(a, name) == IF a.kind = "object" THEN "ok" ELSE name

\* a CryptoKey argument is an index into handles; 0 is any other value
checkCryptoKey(k, name) == IF k > 0 THEN "ok" ELSE name

\* the checks of a method run in statement order; the first failure is thrown
FirstError(checks) ==
  IF \A i \in DOMAIN checks : checks[i] = "ok" THEN "ok"
  ELSE checks[CHOOSE i \in DOMAIN checks :
                 checks[i] # "ok" /\ \A j \in DOMAIN checks : j < i => checks[j] = "ok"]

(***************************************************************************)
(* Argument validation of each facade method, in statement order           *)
(***************************************************************************)
validAlgorithms == {"SHA-1", "SHA-256", "SHA-384", "SHA-512"}

Arity(op) ==
  CASE op = "digest" -> 2
    [] op \in {"importKey", "deriveKey"} -> 5
    [] op \in {"deriveBits", "decrypt", "encrypt", "generateKey"} -> 3
    [] op = "exportKey" -> 2

\* variant: the name list of importKey used in place of the derive list
checkDeriveAlgorithmImportNames(algorithm) ==
  IF algorithm = Str("HKDF") THEN "ok"
  ELSE IF algorithm = Str("AES-GCM") THEN "AES-GCM not supported"
  ELSE FirstError(<<
    allowOnlyKeys(algorithm, {"name", "namedCurve", "public", "hash", "salt", "info"}, "algorithm keys"),
    allowOnlyValues(Prop(algorithm, "name"), {"ECDH", "AES-GCM", "HKDF"}, "algorithm.name"),
    IF Prop(algorithm, "name") = "ECDH"
      THEN allowOnlyValues(Prop(algorithm, "namedCurve"), {"P-256"}, "algorithm.namedCurve")
      ELSE "ok",
    IF Prop(algorithm, "name") = "ECDH"
      THEN IF Prop(algorithm, "public") = "CryptoKey" THEN "ok" ELSE "algorithm.public"
      ELSE "ok",
    IF Prop(algorithm, "name") = "HKDF"
      THEN checkString(Prop(algorithm, "hash"), "algorithm.hash")
      ELSE "ok",
    IF Prop(algorithm, "name") = "HKDF"
      THEN checkArrayBuffer(getBuffer(Prop(algorithm, "salt")), "algorithm.salt")
      ELSE "ok",
    IF Prop(algorithm, "name") = "HKDF"
      THEN checkArrayBuffer(getBuffer(Prop(algorithm, "info")), "algorithm.info")
      ELSE "ok" >>)

checkDeriveAlgorithm(algorithm) ==
  IF algorithm = Str("HKDF") THEN "ok"
  ELSE IF algorithm = Str("AES-GCM") THEN "AES-GCM not supported"
  ELSE FirstError(<<
    allowOnlyKeys(algorithm, {"name", "namedCurve", "public", "hash", "salt", "info"}, "algorithm keys"),
    allowOnlyValues(Prop(algorithm, "name"), {"ECDH", "HKDF"}, "algorithm.name"),
    IF Prop(algorithm, "name") = "ECDH"
      THEN allowOnlyValues(Prop(algorithm, "namedCurve"), {"P-256"}, "algorithm.namedCurve")
      ELSE "ok",
    IF Prop(algorithm, "name") = "ECDH"
      THEN IF Prop(algorithm, "public") = "CryptoKey" THEN "ok" ELSE "algorithm.public"
      ELSE "ok",
    IF Prop(algorithm, "name") = "HKDF"
      THEN checkString(Prop(algorithm, "hash"), "algorithm.hash")
      ELSE "ok",
    IF Prop(algorithm, "name") = "HKDF"
      THEN checkArrayBuffer(getBuffer(Prop(algorithm, "salt")), "algorithm.salt")
      ELSE "ok",
    IF Prop(algorithm, "name") = "HKDF"
      THEN checkArrayBuffer(getBuffer(Prop(algorithm, "info")), "algorithm.info")
      ELSE "ok" >>)

\* variant: the data is checked before the algorithm name
digestChecksDataFirst(n, a) ==
  FirstError(<<
    IF n < 2 THEN "arity" ELSE "ok",
    IF getBuffer(a.data) = "undefined" THEN "data" ELSE "ok",
    IF a.algorithm.kind = "string" /\ a.algorithm.str \in validAlgorithms
      THEN "ok" ELSE "algorithm name" >>)

digestChecks(n, a) ==
  FirstError(<<
    IF n < 2 THEN "arity" ELSE "ok",
    IF a.algorithm.kind = "string" /\ a.algorithm.str \in validAlgorithms
      THEN "ok" ELSE "algorithm name",
    IF getBuffer(a.data) = "undefined" THEN "data" ELSE "ok" >>)

\* variant: the argument count of importKey is a minimum
importKeyChecksAtLeast(n, a) ==
  FirstError(<<
    IF n < 5 THEN "arity" ELSE "ok",
    allowOnlyValues(a.format, {"spki", "pkcs8", "raw"}, "format"),
    checkArrayBuffer(getBuffer(a.data), "keyData"),
    IF a.algorithm.kind = "string"
      THEN allowOnlyValues(a.algorithm.str, {"ECDH", "AES-GCM", "HKDF"}, "algorithm")
      ELSE FirstError(<<
        checkObject(a.algorithm, "algorithm"),
        allowOnlyValues(Prop(a.algorithm, "name"), {"ECDH", "AES-GCM"}, "algorithm.name"),
        IF Prop(a.algorithm, "name") = "ECDH"
          THEN FirstError(<<
            allowOnlyKeys(a.algorithm, {"name", "namedCurve"}, "algorithm keys"),
            allowOnlyValues(Prop(a.algorithm, "namedCurve"), {"P-256"}, "algorithm.namedCurve") >>)
          ELSE allowOnlyKeys(a.algorithm, {"name"}, "algorithm keys") >>),
    checkBoolean(a.extractable, "extractable"),
    checkArray(a.keyUsages, "keyUsages") >>)

importKeyChecks(n, a) ==
  FirstError(<<
    IF n # 5 THEN "arity" ELSE "ok",
    allowOnlyValues(a.format, {"spki", "pkcs8", "raw"}, "format"),
    checkArrayBuffer(getBuffer(a.data), "keyData"),
    IF a.algorithm.kind = "string"
      THEN allowOnlyValues(a.algorithm.str, {"ECDH", "AES-GCM", "HKDF"}, "algorithm")
      ELSE FirstError(<<
        checkObject(a.algorithm, "algorithm"),
        allowOnlyValues(Prop(a.algorithm, "name"), {"ECDH", "AES-GCM"}, "algorithm.name"),
        IF Prop(a.algorithm, "name") = "ECDH"
          THEN FirstError(<<
            allowOnlyKeys(a.algorithm, {"name", "namedCurve"}, "algorithm keys"),
            allowOnlyValues(Prop(a.algorithm, "namedCurve"), {"P-256"}, "algorithm.namedCurve") >>)
          ELSE allowOnlyKeys(a.algorithm, {"name"}, "algorithm keys") >>),
    checkBoolean(a.extractable, "extractable"),
    checkArray(a.keyUsages, "keyUsages") >>)

deriveBitsChecks(n, a) ==
  FirstError(<<
    IF n # 3 THEN "arity" ELSE "ok",
    checkDeriveAlgorithm(a.algorithm),
    checkCryptoKey(a.key, "baseKey"),
    checkNumber(a.length, FALSE, "length") >>)

deriveKeyChecks(n, a) ==
  FirstError(<<
    IF n # 5 THEN "arity" ELSE "ok",
    checkDeriveAlgorithm(a.algorithm),
    allowOnlyKeys(a.derived, {"name", "length"}, "derivedKeyAlgorithm keys"),
    allowOnlyValues(Prop(a.derived, "name"), {"AES-GCM"}, "derivedKeyAlgorithm.name"),
    checkNumber(Prop(a.derived, "length"), FALSE, "derivedKeyAlgorithm.length"),
    checkCryptoKey(a.key, "baseKey"),
    checkBoolean(a.extractable, "extractable"),
    checkArray(a.keyUsages, "keyUsages") >>)

cipherChecks(n, a) ==
  FirstError(<<
    IF n # 3 THEN "arity" ELSE "ok",
    allowOnlyKeys(a.algorithm, {"name", "iv", "tagLength"}, "algorithm keys"),
    allowOnlyValues(Prop(a.algorithm, "name"), {"AES-GCM"}, "algorithm.name"),
    checkNumber(Prop(a.algorithm, "tagLength"), TRUE, "algorithm.tagLength"),
    checkArrayBuffer(getBuffer(Prop(a.algorithm, "iv")), "algorithm.iv"),
    checkCryptoKey(a.key, "key"),
    checkArrayBuffer(getBuffer(a.data), "data") >>)

exportKeyChecks(n, a) ==
  FirstError(<<
    IF n # 2 THEN "arity" ELSE "ok",
    allowOnlyValues(a.format, {"raw", "spki"}, "format"),
    checkCryptoKey(a.key, "key") >>)

generateKeyChecks(n, a) ==
  FirstError(<<
    IF n # 3 THEN "arity" ELSE "ok",
    allowOnlyKeys(a.algorithm, {"name", "namedCurve"}, "algorithm keys"),
    allowOnlyValues(Prop(a.algorithm, "name"), {"ECDH"}, "algorithm.name"),
    allowOnlyValues(Prop(a.algorithm, "namedCurve"), {"P-256"}, "algorithm.namedCurve"),
    checkBoolean(a.extractable, "extractable"),
    checkArray(a.keyUsages, "keyUsages") >>)

Validate(op, n, a) ==
  CASE op = "digest" -> digestChecks(n, a)
    [] op = "importKey" -> importKeyChecks(n, a)
    [] op = "deriveBits" -> deriveBitsChecks(n, a)
    [] op = "deriveKey" -> deriveKeyChecks(n, a)
    [] op \in {"decrypt", "encrypt"} -> cipherChecks(n, a)
    [] op = "exportKey" -> exportKeyChecks(n, a)
    [] op = "generateKey" -> generateKeyChecks(n, a)

\* variant: importKey declared without `async`
IsAsyncExceptImportKey(op) == op \in {"digest", "deriveBits", "deriveKey",
                       "decrypt", "encrypt", "exportKey", "generateKey"}

\* every SubtleCrypto method is declared `async`: a throw in its body
\* rejects the returned promise; Crypto.getRandomValues is not
IsAsync(op) == op \in {"digest", "importKey", "deriveBits", "deriveKey",
                       "decrypt", "encrypt", "exportKey", "generateKey"}

\* a `throw` in the body of a facade method, as the caller sees it
ThrowIn(op) == IF IsAsync(op) THEN "rejected" ELSE "threw"

(***************************************************************************)
(* Records                                                                 *)
(***************************************************************************)
Args(format, data, algorithm, key, derived, extractable, keyUsages, length) ==
  [format |-> format, data |-> data, algorithm |-> algorithm, key |-> key,
   derived |-> derived, extractable |-> extractable, keyUsages |-> keyUsages,
   length |-> length]

\* the promise (or throw) a facade call produced
NewCall(op, n, a) ==
  [op |-> op, n |-> n, args |-> a, status |-> "pending", error |-> "",
   bytes |-> "", keys |-> {}, cid |-> 0, disposes |-> 0, settles |-> 0,
   delivered |-> 0]

FailedCall(op, n, a, outcome, err) ==
  [NewCall(op, n, a) EXCEPT !.status = outcome, !.error = err, !.settles = 1]

NoParams ==
  [format |-> "", algorithm |-> Undefined, derived |-> Undefined, base |-> 0,
   extractable |-> "", usages |-> NoArray, tagLength |-> "", data |-> ""]

\* one _nativeCall that carries onSuccess / onError
Request(c, method, cid, params) ==
  [call |-> c, method |-> method, cid |-> cid, params |-> params,
   state |-> "outstanding", payload |-> ""]

\* new _CryptoKey(): a Provider-side key container
NewContainer(parent, type) ==
  [disposed |-> FALSE, extractable |-> "unset", parent |-> parent, type |-> type]

\* new CryptoKey(nativeObject, data)
CryptoKey(cid, algorithm, extractable, type, usages) ==
  [cid |-> cid, algorithm |-> algorithm, extractable |-> extractable,
   type |-> type, usages |-> usages]

\* getCid(key) / getNativeObject(key).cid
getCid(k) == handles[k].cid

\* key.type: the type the handle was created with, or, for a handle created
\* without one, the role of the view it wraps
KeyType(k) ==
  IF handles[k].type # "" THEN handles[k].type ELSE containers[handles[k].cid].type

NextCid == Len(containers) + 1
ThisCall == Len(calls) + 1

\* NativeObject.dispose(): releases the container once
Dispose(cs, cid) == [cs EXCEPT ![cid].disposed = TRUE]

Settle(call, outcome, err, bytes, keys) ==
  IF call.status = "pending"
    THEN [call EXCEPT !.status = outcome, !.error = err, !.bytes = bytes,
                      !.keys = keys, !.settles = @ + 1]
    ELSE [call EXCEPT !.settles = @ + 1]

unchangedRandom == UNCHANGED <<buffer, view, rnd>>

(***************************************************************************)
(* SubtleCrypto methods: the synchronous part of each call                 *)
(***************************************************************************)
\* ArrayBuffer.isView(data) ? data.buffer : data
ViewBuffer(data) ==
  IF data \in {"Uint8Array", "Float32Array"} THEN "ArrayBuffer" ELSE data

\* SubtleCrypto.digest: failures are returned as Promise.reject(...)
Digest(n, a) ==
  /\ Len(calls) < MaxCalls
  /\ LET err == digestChecks(n, a) IN
     IF err # "ok"
       THEN /\ calls' = Append(calls, FailedCall("digest", n, a, "rejected", err))
            /\ UNCHANGED requests
       ELSE /\ calls' = Append(calls, NewCall("digest", n, a))
            \* NativeCrypto.subtleDigest
            /\ requests' = Append(requests, Request(ThisCall, "subtleDigest", 0,
                 [NoParams EXCEPT !.algorithm = a.algorithm, !.data = ViewBuffer(a.data)]))
  /\ UNCHANGED <<containers, handles>>
  /\ unchangedRandom

\* variant: any descriptor that has a name collapses to the name
AlgorithmInternalByName(algorithm) ==
  IF "name" \in ObjectKeys(algorithm)
    THEN Str(Prop(algorithm, "name"))
    ELSE algorithm

\* the algorithm stored on an imported key: {name: X} collapses to X
AlgorithmInternal(algorithm) ==
  IF Cardinality(ObjectKeys(algorithm)) = 1 /\ ObjectKeys(algorithm) = {"name"}
    THEN Str(Prop(algorithm, "name"))
    ELSE algorithm

\* variant: the key container is created before the arguments are checked
ImportKeyCreatesFirst(n, a) ==
  /\ Len(calls) < MaxCalls
  /\ containers' = Append(containers, NewContainer(0, ""))
  /\ LET err == importKeyChecks(n, a) IN
     IF err # "ok"
       THEN /\ calls' = Append(calls, FailedCall("importKey", n, a, ThrowIn("importKey"), err))
            /\ UNCHANGED requests
       ELSE /\ calls' = Append(calls, [NewCall("importKey", n, a) EXCEPT !.cid = NextCid])
            /\ requests' = Append(requests, Request(ThisCall, "import", NextCid,
                 [NoParams EXCEPT !.format = a.format, !.data = a.data,
                                  !.algorithm = AlgorithmInternal(a.algorithm),
                                  !.extractable = a.extractable,
                                  !.usages = a.keyUsages]))
  /\ UNCHANGED handles
  /\ unchangedRandom

\* SubtleCrypto.importKey: keyData goes to import() as the caller gave it
ImportKey(n, a) ==
  /\ Len(calls) < MaxCalls
  /\ LET err == importKeyChecks(n, a) IN
     IF err # "ok"
       THEN /\ calls' = Append(calls, FailedCall("importKey", n, a, ThrowIn("importKey"), err))
            /\ UNCHANGED <<requests, containers>>
       ELSE /\ containers' = Append(containers, NewContainer(0, ""))
            /\ calls' = Append(calls, [NewCall("importKey", n, a) EXCEPT !.cid = NextCid])
            /\ requests' = Append(requests, Request(ThisCall, "import", NextCid,
                 [NoParams EXCEPT !.format = a.format, !.data = a.data,
                                  !.algorithm = AlgorithmInternal(a.algorithm),
                                  !.extractable = a.extractable,
                                  !.usages = a.keyUsages]))
  /\ UNCHANGED handles
  /\ unchangedRandom

\* variant: the requested length is not passed on
BitsKeySpecNoLength(length) == Obj({<<"name", "AES-GCM">>})

\* the derived key spec deriveBits passes to derive()
BitsKeySpec(length) == Obj({<<"length", length>>, <<"name", "AES-GCM">>})

DeriveBits(n, a) ==
  /\ Len(calls) < MaxCalls
  /\ LET err == deriveBitsChecks(n, a) IN
     IF err # "ok"
       THEN /\ calls' = Append(calls, FailedCall("deriveBits", n, a, ThrowIn("deriveBits"), err))
            /\ UNCHANGED <<requests, containers>>
       ELSE /\ containers' = Append(containers, NewContainer(0, ""))
            /\ calls' = Append(calls, [NewCall("deriveBits", n, a) EXCEPT !.cid = NextCid])
            /\ requests' = Append(requests, Request(ThisCall, "derive", NextCid,
                 [NoParams EXCEPT !.algorithm = a.algorithm, !.base = getCid(a.key),
                                  !.derived = BitsKeySpec(a.length),
                                  !.extractable = "true", !.usages = Arr(<<>>)]))
  /\ UNCHANGED handles
  /\ unchangedRandom

DeriveKey(n, a) ==
  /\ Len(calls) < MaxCalls
  /\ LET err == deriveKeyChecks(n, a) IN
     IF err # "ok"
       THEN /\ calls' = Append(calls, FailedCall("deriveKey", n, a, ThrowIn("deriveKey"), err))
            /\ UNCHANGED <<requests, containers>>
       ELSE /\ containers' = Append(containers, NewContainer(0, ""))
            /\ calls' = Append(calls, [NewCall("deriveKey", n, a) EXCEPT !.cid = NextCid])
            /\ requests' = Append(requests, Request(ThisCall, "derive", NextCid,
                 [NoParams EXCEPT !.algorithm = a.algorithm, !.base = getCid(a.key),
                                  !.derived = a.derived,
                                  !.extractable = a.extractable,
                                  !.usages = a.keyUsages]))
  /\ UNCHANGED handles
  /\ unchangedRandom

\* variant: Number.isNaN in place of isNaN, which is false for undefined
EffectiveTagLengthStrict(tagLength) ==
  IF tagLength = "NaN" THEN "128" ELSE tagLength

\* isNaN(value): the value is converted to a number first; null and the
\* booleans convert to a number, undefined and any other value do not
isNaN(v) == v \notin FiniteNumbers \cup {"null", "true", "false"}

\* isNaN(tagLength) ? 128 : tagLength
EffectiveTagLength(tagLength) ==
  IF isNaN(tagLength) THEN "128" ELSE tagLength

\* the request of NativeCrypto.subtleDecrypt / subtleEncrypt
CipherParams(a, data) ==
  [NoParams EXCEPT
     !.algorithm = Obj({<<"name", Prop(a.algorithm, "name")>>,
                        <<"iv", getBuffer(Prop(a.algorithm, "iv"))>>}),
     !.tagLength = EffectiveTagLength(Prop(a.algorithm, "tagLength")),
     !.data = data]

Decrypt(n, a) ==
  /\ Len(calls) < MaxCalls
  /\ LET err == cipherChecks(n, a) IN
     IF err # "ok"
       THEN /\ calls' = Append(calls, FailedCall("decrypt", n, a, ThrowIn("decrypt"), err))
            /\ UNCHANGED requests
       ELSE /\ calls' = Append(calls, NewCall("decrypt", n, a))
            /\ requests' = Append(requests,
                 Request(ThisCall, "subtleDecrypt", getCid(a.key),
                         CipherParams(a, ViewBuffer(a.data))))
  /\ UNCHANGED <<containers, handles>>
  /\ unchangedRandom

Encrypt(n, a) ==
  /\ Len(calls) < MaxCalls
  /\ LET err == cipherChecks(n, a) IN
     IF err # "ok"
       THEN /\ calls' = Append(calls, FailedCall("encrypt", n, a, ThrowIn("encrypt"), err))
            /\ UNCHANGED requests
       ELSE /\ calls' = Append(calls, NewCall("encrypt", n, a))
            /\ requests' = Append(requests,
                 Request(ThisCall, "subtleEncrypt", getCid(a.key),
                         CipherParams(a, getBuffer(a.data))))
  /\ UNCHANGED <<containers, handles>>
  /\ unchangedRandom

ExportKey(n, a) ==
  /\ Len(calls) < MaxCalls
  /\ LET err == exportKeyChecks(n, a) IN
     IF err # "ok"
       THEN /\ calls' = Append(calls, FailedCall("exportKey", n, a, ThrowIn("exportKey"), err))
            /\ UNCHANGED requests
       ELSE /\ calls' = Append(calls, NewCall("exportKey", n, a))
            \* NativeCrypto.subtleExportKey
            /\ requests' = Append(requests, Request(ThisCall, "subtleExportKey",
                 getCid(a.key), [NoParams EXCEPT !.format = a.format]))
  /\ UNCHANGED <<containers, handles>>
  /\ unchangedRandom

GenerateKey(n, a) ==
  /\ Len(calls) < MaxCalls
  /\ LET err == generateKeyChecks(n, a) IN
     IF err # "ok"
       THEN /\ calls' = Append(calls, FailedCall("generateKey", n, a, ThrowIn("generateKey"), err))
            /\ UNCHANGED <<requests, containers>>
       ELSE /\ containers' = Append(containers, NewContainer(0, ""))
            /\ calls' = Append(calls, [NewCall("generateKey", n, a) EXCEPT !.cid = NextCid])
            /\ requests' = Append(requests, Request(ThisCall, "generate", NextCid,
                 [NoParams EXCEPT !.algorithm = a.algorithm,
                                  !.extractable = a.extractable,
                                  !.usages = a.keyUsages]))
  /\ UNCHANGED handles
  /\ unchangedRandom

(***************************************************************************)
(* The Provider and the callbacks it drives                                *)
(***************************************************************************)
\* what a success callback may carry: a non-empty ArrayBuffer, an empty
\* ArrayBuffer, or a value that is not an ArrayBuffer
Payloads == {"bytes", "empty", "notbuffer"}

Outstanding(r) == r \in DOMAIN requests /\ requests[r].state = "outstanding"

Answered(r, state, payload) ==
  [requests EXCEPT ![r].state = state, ![r].payload = payload]

\* the Provider keeps the extractable flag it was given with the key material
Populate(cs, req) == [cs EXCEPT ![req.cid].extractable = req.params.extractable]

\* the Provider's refusal to export a key that is not extractable
ExportAllowed(cid) == containers[cid].extractable = "true"

\* onSuccess of subtleDigest: throws on a bad result, else resolves
DigestResult(call, payload) ==
  IF payload # "bytes"
    THEN [call EXCEPT !.delivered = @ + 1]
    ELSE [Settle(call, "resolved", "", payload, {}) EXCEPT !.delivered = @ + 1]

DigestSuccess(r, payload) ==
  /\ Outstanding(r)
  /\ requests[r].method = "subtleDigest"
  /\ requests' = Answered(r, "success", payload)
  /\ calls' = [calls EXCEPT ![requests[r].call] = DigestResult(@, payload)]
  /\ UNCHANGED <<containers, handles>>
  /\ unchangedRandom

\* Object.freeze(keyUsages.concat()): a frozen array of its own, holding what
\* the caller's array holds when the copy is made
FrozenCopy(keyUsages) == [kind |-> "frozen array", items |-> keyUsages.items]

\* variant: the handle does not carry the caller's extractable argument
ImportedKeyLocked(call) ==
  CryptoKey(call.cid, AlgorithmInternal(call.args.algorithm), "false",
            "", FrozenCopy(call.args.keyUsages))

\* importKey after `await nativeObject.import(...)`
ImportedKey(call) ==
  CryptoKey(call.cid, AlgorithmInternal(call.args.algorithm), call.args.extractable,
            "", FrozenCopy(call.args.keyUsages))

ImportSuccess(r) ==
  /\ Outstanding(r)
  /\ requests[r].method = "import"
  /\ requests' = Answered(r, "success", "")
  /\ containers' = Populate(containers, requests[r])
  /\ handles' = Append(handles, ImportedKey(calls[requests[r].call]))
  /\ calls' = [calls EXCEPT ![requests[r].call] =
       [Settle(@, "resolved", "", "", {Len(handles) + 1}) EXCEPT !.delivered = @ + 1]]
  /\ unchangedRandom

\* deriveKey after `await nativeObject.derive(...)`
DerivedKey(call) ==
  CryptoKey(call.cid, call.args.algorithm, call.args.extractable, "secret",
            FrozenCopy(call.args.keyUsages))

DeriveKeySuccess(r) ==
  /\ Outstanding(r)
  /\ requests[r].method = "derive"
  /\ calls[requests[r].call].op = "deriveKey"
  /\ requests' = Answered(r, "success", "")
  /\ containers' = Populate(containers, requests[r])
  /\ handles' = Append(handles, DerivedKey(calls[requests[r].call]))
  /\ calls' = [calls EXCEPT ![requests[r].call] =
       [Settle(@, "resolved", "", "", {Len(handles) + 1}) EXCEPT !.delivered = @ + 1]]
  /\ unchangedRandom

\* deriveBits after `await nativeObject.derive(...)`: the executor of the
\* returned promise issues the raw export, then `finally` disposes the key
DeriveBitsDerived(r) ==
  /\ Outstanding(r)
  /\ requests[r].method = "derive"
  /\ calls[requests[r].call].op = "deriveBits"
  /\ requests' = Append(Answered(r, "success", ""),
       Request(requests[r].call, "subtleExportKey", requests[r].cid,
               [NoParams EXCEPT !.format = "raw"]))
  /\ containers' = Dispose(Populate(containers, requests[r]), requests[r].cid)
  /\ calls' = [calls EXCEPT ![requests[r].call] =
       [@ EXCEPT !.disposes = @ + 1, !.delivered = @ + 1]]
  /\ UNCHANGED handles
  /\ unchangedRandom

\* variant: both role views are created as 'private'
GenerateSuccessSameRole(r) ==
  /\ Outstanding(r)
  /\ requests[r].method = "generate"
  /\ requests' = Answered(r, "success", "")
  /\ LET cid == requests[r].cid
         call == calls[requests[r].call]
         e == requests[r].params.extractable
     IN /\ containers' = Populate(containers, requests[r]) \o
             << [NewContainer(cid, "private") EXCEPT !.extractable = e],
                [NewContainer(cid, "private") EXCEPT !.extractable = e] >>
        /\ handles' = handles \o
             << CryptoKey(NextCid, call.args.algorithm, call.args.extractable,
                          "", NoArray),
                CryptoKey(NextCid + 1, call.args.algorithm, call.args.extractable,
                          "", NoArray) >>
        /\ calls' = [calls EXCEPT ![requests[r].call] =
             [Settle(@, "resolved", "", "", {Len(handles) + 1, Len(handles) + 2})
                EXCEPT !.delivered = @ + 1]]
  /\ unchangedRandom

\* generateKey after `await nativeObject.generate(...)`: the roles go to the
\* two views; the data given to each CryptoKey names no type and no usages
GenerateSuccess(r) ==
  /\ Outstanding(r)
  /\ requests[r].method = "generate"
  /\ requests' = Answered(r, "success", "")
  /\ LET cid == requests[r].cid
         call == calls[requests[r].call]
         e == requests[r].params.extractable
     IN /\ containers' = Populate(containers, requests[r]) \o
             << [NewContainer(cid, "private") EXCEPT !.extractable = e],
                [NewContainer(cid, "public") EXCEPT !.extractable = e] >>
        /\ handles' = handles \o
             << CryptoKey(NextCid, call.args.algorithm, call.args.extractable,
                          "", NoArray),
                CryptoKey(NextCid + 1, call.args.algorithm, call.args.extractable,
                          "", NoArray) >>
        /\ calls' = [calls EXCEPT ![requests[r].call] =
             [Settle(@, "resolved", "", "", {Len(handles) + 1, Len(handles) + 2})
                EXCEPT !.delivered = @ + 1]]
  /\ unchangedRandom

\* onSuccess of subtleExportKey / subtleDecrypt / subtleEncrypt is the
\* resolve function of the promise itself
BytesSuccess(r, payload) ==
  /\ Outstanding(r)
  /\ requests[r].method \in {"subtleExportKey", "subtleDecrypt", "subtleEncrypt"}
  /\ requests[r].method = "subtleExportKey" => ExportAllowed(requests[r].cid)
  /\ requests' = Answered(r, "success", payload)
  /\ calls' = [calls EXCEPT ![requests[r].call] =
       [Settle(@, "resolved", "", payload, {}) EXCEPT !.delivered = @ + 1]]
  /\ UNCHANGED <<containers, handles>>
  /\ unchangedRandom

\* variant: dispose() follows the await inside `try`, without `finally`
DisposeOnlyAfterDerive(call, req) == FALSE

\* deriveBits: `finally { nativeObject.dispose() }` when the awaited derive rejects
DisposeOnError(call, req) == call.op = "deriveBits" /\ req.method = "derive"

\* onError of any request: reject(new Error(String(reason)))
ProviderError(r) ==
  /\ Outstanding(r)
  /\ requests' = Answered(r, "error", "")
  /\ LET req == requests[r]
         call == calls[req.call]
     IN IF DisposeOnError(call, req)
          THEN /\ containers' = Dispose(containers, req.cid)
               /\ calls' = [calls EXCEPT ![req.call] =
                    [Settle(@, "rejected", "provider", "", {})
                       EXCEPT !.disposes = @ + 1, !.delivered = @ + 1]]
          ELSE /\ UNCHANGED containers
               /\ calls' = [calls EXCEPT ![req.call] =
                    [Settle(@, "rejected", "provider", "", {}) EXCEPT !.delivered = @ + 1]]
  /\ UNCHANGED handles
  /\ unchangedRandom

(***************************************************************************)
(* The caller                                                              *)
(***************************************************************************)
\* a handle whose usages is the very array the caller passed to call c
SharesArray(c, h) == h \in calls[c].keys /\ handles[h].usages.kind = "array"

\* the caller pushes a usage onto the array it passed as keyUsages of call c
MutateUsages(c, usage) ==
  /\ c \in DOMAIN calls
  /\ calls[c].args.keyUsages.kind = "array"
  /\ \A i \in DOMAIN calls[c].args.keyUsages.items :
       calls[c].args.keyUsages.items[i] # usage
  /\ LET pushed == Arr(Append(calls[c].args.keyUsages.items, usage))
     IN /\ calls' = [calls EXCEPT ![c].args.keyUsages = pushed]
        /\ handles' = [h \in DOMAIN handles |->
             IF SharesArray(c, h) THEN [handles[h] EXCEPT !.usages = pushed]
                                  ELSE handles[h]]
  /\ UNCHANGED <<requests, containers>>
  /\ unchangedRandom

(***************************************************************************)
(* Crypto.getRandomValues / NativeCrypto.getRandomValues                   *)
(***************************************************************************)
Bytes == {0, 1}
IntegerViews == {"Uint8Array", "Int8Array"}
ViewKinds == IntegerViews \cup {"Float32Array", "string"}

NoResult == [kind |-> "none", offset |-> 0, len |-> 0]
IdleRandom ==
  [status |-> "idle", error |-> "", result |-> NoResult, before |-> <<>>,
   values |-> <<>>, asked |-> -1]

\* new Uint8Array(typedArray.buffer).set(values): writes from index 0 of
\* the underlying ArrayBuffer
SetValues(buf, values) ==
  [i \in DOMAIN buf |-> IF i <= Len(values) THEN values[i] ELSE buf[i]]

\* variant: only an answer shorter than byteLength is refused
NativeGetRandomValuesShortOnly(values) ==
  IF Len(values) < view.len
    THEN /\ rnd' = [IdleRandom EXCEPT !.status = "threw",
                      !.error = "Not enough random bytes available",
                      !.before = buffer, !.values = values, !.asked = view.len]
         /\ UNCHANGED buffer
    ELSE /\ buffer' = SetValues(buffer, values)
         /\ rnd' = [IdleRandom EXCEPT !.status = "returned", !.result = view,
                      !.before = buffer, !.values = values, !.asked = view.len]

\* NativeCrypto.getRandomValues(typedArray), values being the Provider's answer
NativeGetRandomValues(values) ==
  IF Len(values) # view.len
    THEN /\ rnd' = [IdleRandom EXCEPT !.status = "threw",
                      !.error = "Not enough random bytes available",
                      !.before = buffer, !.values = values, !.asked = view.len]
         /\ UNCHANGED buffer
    ELSE /\ buffer' = SetValues(buffer, values)
         /\ rnd' = [IdleRandom EXCEPT !.status = "returned", !.result = view,
                      !.before = buffer, !.values = values, !.asked = view.len]

GetRandomValues(n, values) ==
  /\ rnd.status = "idle"
  /\ IF n = 0
       THEN /\ rnd' = [IdleRandom EXCEPT !.status = "threw",
                         !.error = "Not enough arguments", !.before = buffer]
            /\ UNCHANGED buffer
       ELSE IF view.kind \notin IntegerViews
         THEN /\ rnd' = [IdleRandom EXCEPT !.status = "threw",
                           !.error = "not an accepted array type", !.before = buffer]
              /\ UNCHANGED buffer
         ELSE NativeGetRandomValues(values)
  /\ UNCHANGED <<calls, requests, containers, handles, view>>

(***************************************************************************)
(* Inputs                                                                  *)
(***************************************************************************)
UndefArray == [kind |-> "undefined", items |-> <<>>]
NoArgs == Args("undefined", "undefined", Undefined, 0, Undefined, "undefined",
               UndefArray, "undefined")

\* the declared parameters of each method, in signature order
Signature(op) ==
  CASE op = "digest" -> <<"algorithm", "data">>
    [] op = "importKey" -> <<"format", "data", "algorithm", "extractable", "keyUsages">>
    [] op = "deriveBits" -> <<"algorithm", "key", "length">>
    [] op = "deriveKey" -> <<"algorithm", "key", "derived", "extractable", "keyUsages">>
    [] op \in {"decrypt", "encrypt"} -> <<"algorithm", "key", "data">>
    [] op = "exportKey" -> <<"format", "key">>
    [] op = "generateKey" -> <<"algorithm", "extractable", "keyUsages">>

\* a call with n arguments: parameters past the n-th are undefined
Supplied(op, n, a) ==
  [f \in DOMAIN a |->
     IF \E i \in DOMAIN Signature(op) : Signature(op)[i] = f /\ i <= n
       THEN a[f] ELSE NoArgs[f]]

Counts(op) == {Arity(op) - 1, Arity(op), Arity(op) + 1}

EcdhP256 == Obj({<<"name", "ECDH">>, <<"namedCurve", "P-256">>})
EcdhDerive == Obj({<<"name", "ECDH">>, <<"namedCurve", "P-256">>, <<"public", "CryptoKey">>})
HkdfDerive == Obj({<<"name", "HKDF">>, <<"hash", "SHA-256">>,
                   <<"salt", "ArrayBuffer">>, <<"info", "Uint8Array">>})
AesGcmName == Obj({<<"name", "AES-GCM">>})
AesGcmIv == Obj({<<"name", "AES-GCM">>, <<"iv", "ArrayBuffer">>})
AesKey256 == Obj({<<"name", "AES-GCM">>, <<"length", "256">>})

DigestAlgs == {Str("SHA-256"), Str("SHA-1"), Str("MD5"), Undefined, AesGcmName}
DataValues == {"ArrayBuffer", "Uint8Array", "Float32Array", "string"}
Formats == {"raw", "spki", "pkcs8", "jwk"}
Booleans == {"true", "false", "number"}
Usages == {Arr(<<>>), Arr(<<"deriveKey">>), NoArray}
Lengths == {"256", "string"}

ImportAlgs ==
  {Str("AES-GCM"), Str("ECDH"), Str("HKDF"), Str("RSA"), AesGcmName, EcdhP256,
   Obj({<<"name", "ECDH">>, <<"namedCurve", "P-384">>}),
   Obj({<<"name", "HKDF">>}), AesGcmIv, Other}

DeriveAlgs ==
  {Str("HKDF"), Str("AES-GCM"), Str("ECDH"), AesGcmName, AesGcmIv, EcdhDerive,
   Obj({<<"name", "AES-GCM">>, <<"namedCurve", "P-256">>, <<"public", "CryptoKey">>}),
   Obj({<<"name", "ECDH">>, <<"namedCurve", "P-256">>, <<"public", "string">>}),
   HkdfDerive,
   Obj({<<"name", "HKDF">>, <<"hash", "SHA-256">>, <<"salt", "string">>,
        <<"info", "Uint8Array">>}),
   Other}

DerivedAlgs ==
  {AesKey256, AesGcmName, Obj({<<"name", "ECDH">>, <<"length", "256">>}),
   Obj({<<"name", "AES-GCM">>, <<"length", "256">>, <<"iv", "ArrayBuffer">>})}

CipherAlgs ==
  {AesGcmIv, AesGcmName,
   Obj({<<"name", "AES-GCM">>, <<"iv", "Uint8Array">>, <<"tagLength", "96">>}),
   Obj({<<"name", "AES-GCM">>, <<"iv", "ArrayBuffer">>, <<"tagLength", "NaN">>}),
   Obj({<<"name", "AES-GCM">>, <<"iv", "ArrayBuffer">>, <<"tagLength", "null">>}),
   Obj({<<"name", "AES-GCM">>, <<"iv", "ArrayBuffer">>, <<"tagLength", "string">>}),
   Obj({<<"name", "AES-CBC">>, <<"iv", "ArrayBuffer">>}),
   Obj({<<"name", "AES-GCM">>, <<"iv", "ArrayBuffer">>, <<"length", "256">>})}

GenerateAlgs ==
  {EcdhP256, Str("ECDH"), AesGcmName,
   Obj({<<"name", "ECDH">>, <<"namedCurve", "P-384">>}),
   Obj({<<"name", "ECDH">>, <<"namedCurve", "P-256">>, <<"public", "CryptoKey">>})}

\* key arguments: every CryptoKey the caller holds, or a value that is none
KeyArgs == 0 .. Len(handles)

\* every combination of argument count and argument values
AllDigest == {<<n, Supplied("digest", n, [NoArgs EXCEPT !.algorithm = al, !.data = d])>> :
                n \in Counts("digest"), al \in DigestAlgs, d \in DataValues}
AllImportKey == {<<n, Supplied("importKey", n, Args(x[1], x[2], x[3], 0, Undefined, x[4], x[5], "undefined"))>> :
                n \in Counts("importKey"),
                x \in Formats \X DataValues \X ImportAlgs \X Booleans \X Usages}
AllDeriveBits == {<<n, Supplied("deriveBits", n, [NoArgs EXCEPT !.algorithm = x[1], !.key = x[2], !.length = x[3]])>> :
                n \in Counts("deriveBits"), x \in DeriveAlgs \X KeyArgs \X Lengths}
AllDeriveKey == {<<n, Supplied("deriveKey", n, Args("undefined", "undefined", x[1], x[2], x[3], x[4], x[5], "undefined"))>> :
                n \in Counts("deriveKey"),
                x \in DeriveAlgs \X KeyArgs \X DerivedAlgs \X Booleans \X Usages}
AllCipher(op) == {<<n, Supplied(op, n, [NoArgs EXCEPT !.algorithm = x[1], !.key = x[2], !.data = x[3]])>> :
                n \in Counts(op), x \in CipherAlgs \X KeyArgs \X DataValues}
AllExportKey == {<<n, Supplied("exportKey", n, [NoArgs EXCEPT !.format = x[1], !.key = x[2]])>> :
                n \in Counts("exportKey"), x \in Formats \X KeyArgs}
AllGenerateKey == {<<n, Supplied("generateKey", n, [NoArgs EXCEPT !.algorithm = x[1], !.extractable = x[2], !.keyUsages = x[3]])>> :
                n \in Counts("generateKey"), x \in GenerateAlgs \X Booleans \X Usages}

\* a few representative calls of each method
HeldKeys == 1 .. Len(handles)
SomeDigest == {<<2, [NoArgs EXCEPT !.algorithm = al, !.data = "Uint8Array"]>> :
                 al \in {Str("SHA-256"), Str("MD5")}}
SomeImportKey == {<<5, Args(f, "ArrayBuffer", al, 0, Undefined, e, Arr(<<>>), "undefined")>> :
                 f \in {"raw", "jwk"}, al \in {Str("AES-GCM"), AesGcmName}, e \in {"true", "false"}}
SomeDeriveBits == {<<3, [NoArgs EXCEPT !.algorithm = al, !.key = k, !.length = "256"]>> :
                 al \in {Str("HKDF"), Str("AES-GCM")}, k \in HeldKeys}
SomeDeriveKey == {<<5, Args("undefined", "undefined", al, k, AesKey256, e, Arr(<<>>), "undefined")>> :
                 al \in {HkdfDerive, AesGcmName}, k \in HeldKeys, e \in {"true", "false"}}
SomeCipher == {<<n, [NoArgs EXCEPT !.algorithm = AesGcmIv, !.key = k, !.data = "ArrayBuffer"]>> :
                 n \in {3, 4}, k \in HeldKeys}
SomeExportKey == {<<n, [NoArgs EXCEPT !.format = "raw", !.key = k]>> :
                 n \in {2, 3}, k \in HeldKeys}
SomeGenerateKey == {<<3, [NoArgs EXCEPT !.algorithm = al, !.extractable = e,
                                        !.keyUsages = Arr(<<"deriveKey">>)]>> :
                 al \in {EcdhP256, AesGcmName}, e \in {"true", "false"}}

(***************************************************************************)
(* Specifications                                                          *)
(***************************************************************************)
\* after construction of Crypto and SubtleCrypto
Init ==
  /\ calls = <<>>
  /\ requests = <<>>
  /\ containers = <<>>
  /\ handles = <<>>
  /\ buffer = <<>>
  /\ view = NoResult
  /\ rnd = IdleRandom

Callbacks ==
  \/ \E r \in DOMAIN requests, p \in Payloads : DigestSuccess(r, p)
  \/ \E r \in DOMAIN requests : ImportSuccess(r)
  \/ \E r \in DOMAIN requests : DeriveKeySuccess(r)
  \/ \E r \in DOMAIN requests : DeriveBitsDerived(r)
  \/ \E r \in DOMAIN requests : GenerateSuccess(r)
  \/ \E r \in DOMAIN requests, p \in Payloads : BytesSuccess(r, p)
  \/ \E r \in DOMAIN requests : ProviderError(r)

Next ==
  \/ \E i \in SomeDigest : Digest(i[1], i[2])
  \/ \E i \in SomeImportKey : ImportKey(i[1], i[2])
  \/ \E i \in SomeDeriveBits : DeriveBits(i[1], i[2])
  \/ \E i \in SomeDeriveKey : DeriveKey(i[1], i[2])
  \/ \E i \in SomeCipher : Decrypt(i[1], i[2])
  \/ \E i \in SomeCipher : Encrypt(i[1], i[2])
  \/ \E i \in SomeExportKey : ExportKey(i[1], i[2])
  \/ \E i \in SomeGenerateKey : GenerateKey(i[1], i[2])
  \/ Callbacks

Spec == Init /\ [][Next]_vars

\* one call with arbitrary arguments, made by a caller that holds one key
\* imported earlier with importKey("raw", bytes, "AES-GCM", e, [])
FirstImport(e) == Args("raw", "ArrayBuffer", Str("AES-GCM"), 0, Undefined, e, Arr(<<>>), "undefined")

InitArgs ==
  \E e \in {"true", "false"} :
    /\ calls = << [NewCall("importKey", 5, FirstImport(e)) EXCEPT
                    !.status = "resolved", !.keys = {1}, !.cid = 1,
                    !.settles = 1, !.delivered = 1] >>
    /\ requests = << [Request(1, "import", 1,
                       [NoParams EXCEPT !.format = "raw", !.data = "ArrayBuffer",
                                        !.algorithm = Str("AES-GCM"),
                                        !.extractable = e, !.usages = Arr(<<>>)])
                       EXCEPT !.state = "success"] >>
    /\ containers = << [NewContainer(0, "") EXCEPT !.extractable = e] >>
    /\ handles = << CryptoKey(1, Str("AES-GCM"), e, "", FrozenCopy(Arr(<<>>))) >>
    /\ buffer = <<>>
    /\ view = NoResult
    /\ rnd = IdleRandom

NextArgs ==
  \/ Len(calls) = 1 /\ \E i \in AllDigest : Digest(i[1], i[2])
  \/ Len(calls) = 1 /\ \E i \in AllImportKey : ImportKey(i[1], i[2])
  \/ Len(calls) = 1 /\ \E i \in AllDeriveBits : DeriveBits(i[1], i[2])
  \/ Len(calls) = 1 /\ \E i \in AllDeriveKey : DeriveKey(i[1], i[2])
  \/ Len(calls) = 1 /\ \E i \in AllCipher("decrypt") : Decrypt(i[1], i[2])
  \/ Len(calls) = 1 /\ \E i \in AllCipher("encrypt") : Encrypt(i[1], i[2])
  \/ Len(calls) = 1 /\ \E i \in AllExportKey : ExportKey(i[1], i[2])
  \/ Len(calls) = 1 /\ \E i \in AllGenerateKey : GenerateKey(i[1], i[2])
  \/ Callbacks

SpecArgs == InitArgs /\ [][NextArgs]_vars

\* importKey calls of a caller that goes on using the array it passed
ImportInputs == {<<5, Args("raw", "Uint8Array", al, 0, Undefined, e, Arr(<<"deriveKey">>), "undefined")>> :
                 al \in {Str("AES-GCM"), AesGcmName, EcdhP256, Str("HKDF")}, e \in {"true", "false"}}

NextImport ==
  \/ \E i \in ImportInputs : ImportKey(i[1], i[2])
  \/ \E r \in DOMAIN requests : ImportSuccess(r)
  \/ \E r \in DOMAIN requests : ProviderError(r)
  \/ \E c \in DOMAIN calls : MutateUsages(c, "encrypt")

SpecImport == Init /\ [][NextImport]_vars

\* one getRandomValues call on a view over a buffer of up to MaxBuf bytes
BufferValues == UNION {[1 .. l -> Bytes] : l \in 0 .. MaxBuf}
ProviderValues == UNION {[1 .. l -> Bytes] : l \in 0 .. (MaxBuf + 1)}

InitRandom ==
  /\ calls = <<>>
  /\ requests = <<>>
  /\ containers = <<>>
  /\ handles = <<>>
  /\ buffer \in BufferValues
  /\ \E k \in ViewKinds, o \in 0 .. MaxBuf, l \in 0 .. MaxBuf :
       /\ o + l <= Len(buffer)
       /\ view = [kind |-> k, offset |-> o, len |-> l]
  /\ rnd = IdleRandom

NextRandom == \E n \in {0, 1}, values \in ProviderValues : GetRandomValues(n, values)

SpecRandom == InitRandom /\ [][NextRandom]_vars

(***************************************************************************)
(* Properties                                                              *)
(***************************************************************************)
RequestsOf(c) == {r \in DOMAIN requests : requests[r].call = c}
OutstandingOf(c) == {r \in RequestsOf(c) : requests[r].state = "outstanding"}
Settled(c) == calls[c].status \in {"resolved", "rejected"}
DeriveBitsCalls == {c \in DOMAIN calls : calls[c].op = "deriveBits" /\ calls[c].cid # 0}

\* C1: whenever a deriveBits result is resolved or rejected, the transient
\* key it created has already been disposed, and dispose ran exactly once;
\* before that it ran at most once.
C1_TransientKeyDisposed ==
  \A c \in DeriveBitsCalls :
    /\ calls[c].disposes <= 1
    /\ Settled(c) => /\ containers[calls[c].cid].disposed
                     /\ calls[c].disposes = 1

\* a deriveBits call resolved with the exported bytes, its key disposed once
C1_Witness ==
  \E c \in DeriveBitsCalls :
    /\ calls[c].status = "resolved"
    /\ calls[c].bytes = "bytes"
    /\ calls[c].disposes = 1

\* C2: every facade call settles exactly once: never more than once, and
\* it is not pending once the Provider has answered every request of it.
C2_SettlesExactlyOnce ==
  \A c \in DOMAIN calls :
    /\ calls[c].settles <= 1
    /\ calls[c].status = "pending" => OutstandingOf(c) # {}

\* C3: a call whose arguments fail validation issues no Provider request,
\* creates no key container and yields neither a key handle nor bytes.
C3_ValidationBeforeProvider ==
  /\ \A c \in DOMAIN calls :
       Validate(calls[c].op, calls[c].n, calls[c].args) # "ok" =>
         /\ RequestsOf(c) = {}
         /\ calls[c].status \in {"rejected", "threw"}
         /\ calls[c].keys = {}
         /\ calls[c].bytes = ""
  /\ \A cid \in DOMAIN containers :
       containers[cid].parent = 0 =>
         \E c \in DOMAIN calls :
           /\ calls[c].cid = cid
           /\ Validate(calls[c].op, calls[c].n, calls[c].args) = "ok"

\* an importKey call with the right count whose keyUsages is no array
C3_Witness ==
  \E c \in DOMAIN calls :
    /\ calls[c].op = "importKey"
    /\ calls[c].n = 5
    /\ calls[c].error = "keyUsages"
    /\ calls[c].status = "rejected"

ExportsOfLockedKeys ==
  {c \in DOMAIN calls : /\ calls[c].op = "exportKey"
                        /\ calls[c].args.key > 0
                        /\ handles[calls[c].args.key].extractable = "false"}

\* C4: exportKey on a key handle whose extractable attribute is false never
\* resolves, and is rejected once the Provider has answered.
C4_NonExtractableNeverExported ==
  \A c \in ExportsOfLockedKeys :
    /\ calls[c].status # "resolved"
    /\ calls[c].bytes = ""
    /\ OutstandingOf(c) = {} => calls[c].status = "rejected"

\* a key imported with extractable = false whose export the Provider refused
C4_Witness ==
  \E c \in ExportsOfLockedKeys :
    /\ calls[c].n = 2
    /\ calls[c].status = "rejected"
    /\ calls[c].error = "provider"
    /\ calls[c].delivered = 1

\* C5: no export request addresses a key container that is already
\* disposed while the request is still outstanding.
C5_NoUseAfterDispose ==
  \A r \in DOMAIN requests :
    (requests[r].method = "subtleExportKey" /\ requests[r].state = "outstanding")
      => ~containers[requests[r].cid].disposed

IsAesGcm(algorithm) ==
  \/ algorithm = Str("AES-GCM")
  \/ algorithm.kind = "object" /\ Prop(algorithm, "name") = "AES-GCM"

\* the failures checkDeriveAlgorithm raises about the algorithm itself
AlgorithmErrors == {"AES-GCM not supported", "algorithm keys", "algorithm.name"}

DerivesFromAesGcm ==
  {c \in DOMAIN calls : /\ calls[c].op \in {"deriveBits", "deriveKey"}
                        /\ IsAesGcm(calls[c].args.algorithm)}

\* C6: a deriveBits or deriveKey call whose algorithm is "AES-GCM" or a
\* descriptor named "AES-GCM" is rejected and sends no derive request, and
\* when it supplies the declared arguments the failure is the one
\* checkDeriveAlgorithm raises about the algorithm, whatever the others are.
C6_AesGcmNeverDerives ==
  \A c \in DerivesFromAesGcm :
    /\ calls[c].status = "rejected"
    /\ RequestsOf(c) = {}
    /\ calls[c].cid = 0
    /\ checkDeriveAlgorithm(calls[c].args.algorithm) \in AlgorithmErrors
    /\ calls[c].n = Arity(calls[c].op) => calls[c].error \in AlgorithmErrors

\* deriveKey with {name: "AES-GCM"} and every other argument valid
C6_Witness ==
  \E c \in DerivesFromAesGcm :
    /\ calls[c].op = "deriveKey"
    /\ calls[c].n = 5
    /\ calls[c].args.algorithm = AesGcmName
    /\ calls[c].args.key > 0
    /\ calls[c].args.derived = AesKey256
    /\ calls[c].args.extractable = "true"
    /\ calls[c].args.keyUsages.kind = "array"
    /\ calls[c].error = "algorithm.name"

InView(i) == view.offset < i /\ i <= view.offset + view.len

\* C7: a successful getRandomValues returns the view it was given, the
\* bytes the view covers are the Provider's bytes in order, and the bytes
\* of the buffer outside the view are unchanged.
C7_FillsViewInPlace ==
  rnd.status = "returned" =>
    /\ rnd.result = view
    /\ \A i \in 1 .. view.len : buffer[view.offset + i] = rnd.values[i]
    /\ \A i \in DOMAIN buffer : ~InView(i) => buffer[i] = rnd.before[i]

\* C8: a Provider answer whose length differs from the view's byteLength
\* makes getRandomValues throw 'Not enough random bytes available', return
\* no view and leave the buffer as it was.
C8_WrongLengthThrows ==
  (rnd.asked >= 0 /\ Len(rnd.values) # rnd.asked) =>
    /\ rnd.status = "threw"
    /\ rnd.error = "Not enough random bytes available"
    /\ rnd.result = NoResult
    /\ buffer = rnd.before

\* the Provider answered a two-byte view with three bytes
C8_Witness ==
  /\ rnd.asked = 2
  /\ Len(rnd.values) = 3
  /\ rnd.status = "threw"
  /\ Len(buffer) = 3

\* the failure digest must report: count first, then name, then data
DigestFailure(n, a) ==
  IF n < 2 THEN "arity"
  ELSE IF ~(a.algorithm.kind = "string" /\ a.algorithm.str \in validAlgorithms)
    THEN "algorithm name"
  ELSE IF getBuffer(a.data) = "undefined" THEN "data"
  ELSE "ok"

InvalidDigests ==
  {c \in DOMAIN calls : /\ calls[c].op = "digest"
                        /\ DigestFailure(calls[c].n, calls[c].args) # "ok"}

\* C9: a digest call with too few arguments, an unknown algorithm name or
\* data that is no buffer returns a promise that rejects with that failure
\* (in this order), never throws, and issues no Provider request.
C9_DigestRejectsInvalid ==
  \A c \in InvalidDigests :
    /\ calls[c].status = "rejected"
    /\ calls[c].error = DigestFailure(calls[c].n, calls[c].args)
    /\ calls[c].settles = 1
    /\ RequestsOf(c) = {}

\* digest("MD5", "string"): both arguments bad, the name is reported
C9_Witness ==
  \E c \in InvalidDigests :
    /\ calls[c].n = 2
    /\ calls[c].args.algorithm = Str("MD5")
    /\ calls[c].args.data = "string"
    /\ calls[c].status = "rejected"
    /\ calls[c].error = "algorithm name"

\* C10: when the Provider's success callback for a digest request carries
\* an empty buffer or no buffer, the digest result is rejected.
C10_BadDigestResultRejects ==
  \A r \in DOMAIN requests :
    (/\ requests[r].method = "subtleDigest"
     /\ requests[r].state = "success"
     /\ requests[r].payload # "bytes")
      => calls[requests[r].call].status = "rejected"


FixedArityOps == {"importKey", "exportKey", "generateKey", "deriveBits",
                  "deriveKey", "encrypt", "decrypt"}

\* calls of the methods other than digest that ended in a count or
\* validation failure
FailedValidations ==
  {c \in DOMAIN calls : /\ calls[c].op \in FixedArityOps
                        /\ calls[c].error \notin {"", "provider"}}

\* C11 as stated: a count or validation failure of a method other than
\* digest reaches the caller as a synchronous throw, not as a rejection.
C11_FailsSynchronously ==
  \A c \in FailedValidations : calls[c].status = "threw"

\* C11 as amended: such a failure is the rejection of the promise the call
\* returns, decided in the calling turn (the promise is rejected when the
\* call returns, no Provider request issued), never a synchronous throw.
C11_FailsByRejection ==
  \A c \in FailedValidations :
    /\ calls[c].status = "rejected"
    /\ calls[c].settles = 1
    /\ calls[c].delivered = 0
    /\ OutstandingOf(c) = {}

\* importKey with four arguments: a rejected promise carrying the count error
C11_Witness ==
  \E c \in FailedValidations :
    /\ calls[c].op = "importKey"
    /\ calls[c].n = 4
    /\ calls[c].status = "rejected"
    /\ calls[c].error = "arity"

WrongCounts ==
  {c \in DOMAIN calls : /\ calls[c].op \in FixedArityOps
                        /\ calls[c].n # Arity(calls[c].op)}

\* C12: a call of importKey or deriveKey with a count other than 5, of
\* deriveBits, encrypt, decrypt or generateKey with a count other than 3,
\* or of exportKey with a count other than 2 fails with the count error
\* and no other, whatever the supplied values are; no request is issued.
C12_ExactArity ==
  \A c \in WrongCounts :
    /\ calls[c].status \in {"rejected", "threw"}
    /\ calls[c].error = "arity"
    /\ RequestsOf(c) = {}

\* importKey with six arguments, the first five of them valid
C12_Witness ==
  \E c \in WrongCounts :
    /\ calls[c].op = "importKey"
    /\ calls[c].n = 6
    /\ importKeyChecks(5, calls[c].args) = "ok"
    /\ calls[c].error = "arity"


ImportedKeys ==
  {c \in DOMAIN calls : calls[c].op = "importKey" /\ calls[c].status = "resolved"}

\* the handle importKey call c resolved with
KeyOf(c) == handles[CHOOSE h \in calls[c].keys : TRUE]

\* the import request of call c
ImportRequestOf(c) == requests[CHOOSE r \in RequestsOf(c) : requests[r].method = "import"]

OnlyName(algorithm) == algorithm.kind = "object" /\ Keys(algorithm.obj) = {"name"}

StoredAsExpected(c) ==
  /\ Cardinality(calls[c].keys) = 1
  /\ OnlyName(calls[c].args.algorithm) =>
       KeyOf(c).algorithm = Str(Prop(calls[c].args.algorithm, "name"))
  /\ ~OnlyName(calls[c].args.algorithm) =>
       KeyOf(c).algorithm = calls[c].args.algorithm
  /\ KeyOf(c).algorithm = ImportRequestOf(c).params.algorithm
  /\ KeyOf(c).extractable = calls[c].args.extractable
  /\ KeyOf(c).usages.kind = "frozen array"

\* C13: the handle of a successful importKey stores X for {name: X} and for
\* the string X, stores a descriptor with further fields unchanged, stores
\* the algorithm that was sent to the Provider and the extractable argument,
\* and its usages is a frozen array of its own: no later step, a change of
\* the caller's array included, alters a handle.
C13_NormalizedImport ==
  /\ [](\A c \in ImportedKeys : StoredAsExpected(c))
  /\ [][\A h \in DOMAIN handles : handles'[h] = handles[h]]_vars

\* {name: "AES-GCM"} imported, stored as "AES-GCM", and the caller's array
\* changed after the handle was made
C13_Witness ==
  \E c \in ImportedKeys :
    /\ calls[c].args.algorithm = AesGcmName
    /\ KeyOf(c).algorithm = Str("AES-GCM")
    /\ KeyOf(c).usages.items = <<"deriveKey">>
    /\ calls[c].args.keyUsages.items = <<"deriveKey", "encrypt">>


GenerateCalls == {c \in DOMAIN calls : calls[c].op = "generateKey" /\ calls[c].cid # 0}

\* handles that are role views of the key object generated by call c
ViewsOf(c) ==
  {h \in DOMAIN handles : containers[handles[h].cid].parent = calls[c].cid}

KeyPair(c, private, public) ==
  /\ private # public
  /\ calls[c].keys = {private, public}
  /\ handles[private].cid # handles[public].cid
  /\ KeyType(private) = "private"
  /\ KeyType(public) = "public"
  /\ containers[handles[private].cid].type = "private"
  /\ containers[handles[public].cid].type = "public"
  /\ \A h \in {private, public} :
       /\ containers[handles[h].cid].parent = calls[c].cid
       /\ handles[h].algorithm = calls[c].args.algorithm
       /\ handles[h].extractable = calls[c].args.extractable

\* C14: a generateKey call issues exactly one generation request; when it
\* resolves, its result is two distinct handles, one private and one
\* public, both role views of the one key object of that request, carrying
\* the caller's algorithm and extractable; until then, and when the Provider
\* rejects the generation, no handle of either role exists.
C14_KeyPairViews ==
  \A c \in GenerateCalls :
    /\ Cardinality({r \in RequestsOf(c) : requests[r].method = "generate"}) = 1
    /\ Cardinality(RequestsOf(c)) = 1
    /\ calls[c].status = "resolved" =>
         /\ ViewsOf(c) = calls[c].keys
         /\ \E private \in calls[c].keys, public \in calls[c].keys :
              KeyPair(c, private, public)
    /\ calls[c].status # "resolved" =>
         /\ calls[c].keys = {}
         /\ ViewsOf(c) = {}

\* a resolved generateKey({name: "ECDH", namedCurve: "P-256"}, true, ...)
C14_Witness ==
  \E c \in GenerateCalls :
    /\ calls[c].status = "resolved"
    /\ calls[c].args.extractable = "true"
    /\ \E private \in calls[c].keys, public \in calls[c].keys :
         KeyPair(c, private, public)


CipherRequests ==
  {r \in DOMAIN requests : requests[r].method \in {"subtleEncrypt", "subtleDecrypt"}}

\* the tagLength property of the algorithm argument of the call behind r
CallerTagLength(r) == Prop(calls[requests[r].call].args.algorithm, "tagLength")

\* C15: the tag length of every encrypt and decrypt request is 128 when
\* the caller's tagLength is absent or NaN and the caller's value otherwise,
\* by the same rule for both methods.
C15_TagLengthDefault ==
  /\ EffectiveTagLength("NaN") = "128"
  /\ \A r \in CipherRequests :
       /\ CallerTagLength(r) \in {"undefined", "NaN"} => requests[r].params.tagLength = "128"
       /\ CallerTagLength(r) \notin {"undefined", "NaN"} =>
            requests[r].params.tagLength = CallerTagLength(r)
  /\ \A r \in CipherRequests, q \in CipherRequests :
       CallerTagLength(r) = CallerTagLength(q) =>
         requests[r].params.tagLength = requests[q].params.tagLength

\* decrypt({name: "AES-GCM", iv}, key, data): the request carries 128
C15_Witness ==
  \E r \in CipherRequests :
    /\ requests[r].method = "subtleDecrypt"
    /\ calls[requests[r].call].args.algorithm = AesGcmIv
    /\ requests[r].params.tagLength = "128"

DeriveRequestsOf(c) == {r \in RequestsOf(c) : requests[r].method = "derive"}
ExportRequestsOf(c) == {r \in RequestsOf(c) : requests[r].method = "subtleExportKey"}

\* C16: a deriveBits call sends one derive request, for an extractable
\* AES-GCM key of the requested length with no usages; a raw export of that
\* key is requested only after the derive succeeded; when the derive is
\* rejected there is no export request and the call is rejected with the
\* Provider's error and no bytes.
C16_DeriveThenExport ==
  \A c \in DeriveBitsCalls :
    /\ Cardinality(DeriveRequestsOf(c)) = 1
    /\ \A d \in DeriveRequestsOf(c) :
         /\ requests[d].cid = calls[c].cid
         /\ requests[d].params.extractable = "true"
         /\ requests[d].params.usages = Arr(<<>>)
         /\ requests[d].params.derived =
              Obj({<<"name", "AES-GCM">>, <<"length", calls[c].args.length>>})
         /\ requests[d].state = "error" =>
              /\ ExportRequestsOf(c) = {}
              /\ calls[c].status = "rejected"
              /\ calls[c].error = "provider"
              /\ calls[c].bytes = ""
    /\ \A e \in ExportRequestsOf(c) :
         /\ requests[e].cid = calls[c].cid
         /\ requests[e].params.format = "raw"
         /\ \E d \in DeriveRequestsOf(c) : d < e /\ requests[d].state = "success"

\* the derive of a deriveBits call was rejected: no export, no bytes
C16_Witness ==
  \E c \in DeriveBitsCalls :
    /\ \E d \in DeriveRequestsOf(c) : requests[d].state = "error"
    /\ ExportRequestsOf(c) = {}
    /\ calls[c].status = "rejected"


\* the parameter a failure is about
ArgOf(error) ==
  CASE error = "format" -> "format"
    [] error \in {"keyData", "data"} -> "data"
    [] error \in {"baseKey", "key"} -> "key"
    [] error = "length" -> "length"
    [] error = "extractable" -> "extractable"
    [] error = "keyUsages" -> "keyUsages"
    [] error \in {"derivedKeyAlgorithm keys", "derivedKeyAlgorithm.name",
                  "derivedKeyAlgorithm.length"} -> "derived"
    [] OTHER -> "algorithm"

\* arguments every check of the method accepts
GoodArgs(op) ==
  Supplied(op, Arity(op),
    Args("raw", "ArrayBuffer",
         CASE op = "digest" -> Str("SHA-256")
           [] op = "importKey" -> Str("AES-GCM")
           [] op \in {"deriveBits", "deriveKey"} -> Str("HKDF")
           [] op \in {"encrypt", "decrypt"} -> AesGcmIv
           [] op = "generateKey" -> EcdhP256
           [] OTHER -> Undefined,
         1, AesKey256, "true", Arr(<<>>), "256"))

\* the positions of the arguments of a call that are invalid on their own
InvalidPositions(op, a) ==
  {i \in DOMAIN Signature(op) :
     Validate(op, Arity(op),
              [GoodArgs(op) EXCEPT ![Signature(op)[i]] = a[Signature(op)[i]]]) # "ok"}

LeftMostInvalid(op, a) ==
  Signature(op)[CHOOSE i \in InvalidPositions(op, a) :
                  \A j \in InvalidPositions(op, a) : i <= j]

SeveralInvalid ==
  {c \in DOMAIN calls : /\ calls[c].n = Arity(calls[c].op)
                        /\ Cardinality(InvalidPositions(calls[c].op, calls[c].args)) >= 2}

\* C17: a call with the right number of arguments of which two or more are
\* invalid reports the failure of the left-most invalid argument, in the
\* order of the method's signature.
C17_LeftMostReported ==
  \A c \in SeveralInvalid :
    ArgOf(calls[c].error) = LeftMostInvalid(calls[c].op, calls[c].args)

AllSettled == \A c \in DOMAIN calls : calls[c].status # "pending"

\* a container a caller can reach: the one of a returned handle, or the key
\* object a returned role view belongs to
Referenced(cid) ==
  \E h \in DOMAIN handles :
    handles[h].cid = cid \/ containers[handles[h].cid].parent = cid

\* C18: once every call has run to completion, each key container that
\* was created and not disposed is referenced by a handle a caller holds.
C18_NoOrphanContainers ==
  AllSettled =>
    \A cid \in DOMAIN containers : ~containers[cid].disposed => Referenced(cid)

====
